---- MODULE Spec2Model ----
(***************************************************************************)
(* Model of the slack-summarizer pipeline:                                 *)
(*   - split_messages_by_token_count (src/summarizer.py), the token-aware  *)
(*     chunker, as a loop stepped one input line at a time;                *)
(*   - SlackClient.load_messages (src/lib/slack.py), the history fetch,    *)
(*     thread reconstruction and formatting, stepped one page, one         *)
(*     classification pass and one formatting pass at a time;              *)
(*   - the retry decorator (src/lib/utils.py), stepped one invocation of   *)
(*     the wrapped function at a time;                                     *)
(*   - runner (src/summarizer.py), the loop over the channels, with        *)
(*     load_messages stepped one remote invocation at a time, each of      *)
(*     which may fail.                                                     *)
(*                                                                         *)
(* A text (a Python str) is a sequence of atoms: the pieces the code tells *)
(* apart (the reply prefix, a speaker name, ": ", a newline, a user or a   *)
(* channel reference, a word).  The tokenizer splits a text into tokens    *)
(* and the estimate is their number, so a chunker input line is given as   *)
(* the sequence of its tokens.                                             *)
(* An optional value (a dict key that may be missing, or None) is a        *)
(* sequence of length 0 or 1.                                              *)
(***************************************************************************)
EXTENDS Integers, Sequences, FiniteSets, TLC

VARIABLES
    \* ---- split_messages_by_token_count ----
    MAX_BODY_TOKENS,        \* the budget, read from the environment at start
    split_messages,         \* the parameter `messages`
    split_i,                \* position of the for loop in split_messages
    result,
    current_sublist,
    current_count,
    thread_start_message,   \* <<>> is None, <<line>> a line
    split_pc,               \* "idle", "loop" or "done"
    \* ---- SlackClient.load_messages ----
    world,                  \* the channel's messages inside the time window,
                            \* world[k] has ts = k (what the remote calls serve)
    messages_info,
    next_cursor,            \* <<>> is None, <<c>> a cursor
    messages,               \* `messages`: the filtered list, then all_target_messages
    msg_i,                  \* position of the loop of line 248 in `messages`
    all_target_messages,
    messages_texts,
    load_result,            \* the value returned: <<>> is None, <<list>> a list
    load_pc,                \* "idle", "history", "join", "classify", "replies",
                            \* "reply_page", "returned", or, when the call ended
                            \* without returning, "exited" or "raised"
    \* ---- retry (the wrapper of one decorated function) ----
    max_retries,            \* the decorator's arguments
    initial_sleep_time,
    retry_i,                \* `i` of the for loop
    sleep_time,
    retry_pc,               \* "idle", "invoke", "returned" or "raised"
    calls,                  \* invocations of func made by this wrapper call
    backed_off,             \* seconds slept by the wrapper since the last
                            \* invocation of func
    func_outcome,           \* what the last invocation of func did: <<>> before
                            \* the first, else <<outcome>>
    retry_error,            \* the error the wrapper raised: <<>> is none
    \* ---- replace_user_id_with_name called on its own ----
    replace_input,          \* the argument body_text
    replace_output,         \* <<>> before the return, else <<the text returned>>
    replace_pc,             \* "idle", "called" or "returned"
    \* ---- runner, and what load_messages does around its remote calls ----
    run_pc,                 \* "idle", "load", "split", "finish", "done", or,
                            \* when the process ended early, "exited" or "raised"
    channel_i,              \* position of the for loop in slack_client.channels
    summary,                \* `summary` of the channel last summarized
    posted,                 \* ids of the channels post_summary posted into
    channel_summaries,
    output_posts,           \* what the final loop posted to CHANNEL_ID
    waited,                 \* seconds slept in _wait_api_call since the last
                            \* remote invocation
    joins,                  \* join operations made by this load_messages call
    printed,                \* the error lines this load_messages call printed
    \* ---- summarize called on its own ----
    summarize_text,         \* the argument `text`, as its tokens
    summarize_max_retries,  \* the arguments max_retries and initial_wait_time
    initial_wait_time,
    summarize_i,            \* `i` of the for loop of line 75
    wait_time,
    response,               \* <<>> is None, else <<the content of the reply>>
    error_response,         \* the pieces of the message: <<>> is ""
    service_calls,          \* calls of ChatCompletion.create made by this call
    service_failure,        \* <<>>, or <<the class the last call raised>>
    slept,                  \* seconds of backoff slept since the last service
                            \* call
    interval_slept,         \* time.sleep(REQUEST_INTERVAL) ran after the reply
    summarize_result,       \* <<>> before the return, else <<the text returned>>
    summarize_pc            \* "idle", "call", "returned" or "raised"

split_vars == <<MAX_BODY_TOKENS, split_messages, split_i, result,
                current_sublist, current_count, thread_start_message, split_pc>>

load_vars == <<world, messages_info, next_cursor, messages, msg_i,
               all_target_messages, messages_texts, load_result, load_pc>>

retry_vars == <<max_retries, initial_sleep_time, retry_i, sleep_time, retry_pc,
                calls, backed_off, func_outcome, retry_error>>

replace_vars == <<replace_input, replace_output, replace_pc>>

run_vars == <<run_pc, channel_i, summary, posted, channel_summaries,
              output_posts, waited, joins, printed>>

summarize_vars == <<summarize_text, summarize_max_retries, initial_wait_time,
                    summarize_i, wait_time, response, error_response,
                    service_calls, service_failure, slept, interval_slept,
                    summarize_result, summarize_pc>>

vars == <<split_vars, load_vars, retry_vars, replace_vars, run_vars,
         summarize_vars>>

\* what the chunker's steps and load_messages' steps leave alone
SplitFrame == <<load_vars, retry_vars, replace_vars, summarize_vars, run_vars>>
LoadFrame == <<split_vars, retry_vars, replace_vars, summarize_vars, run_vars>>

----------------------------------------------------------------------------
(* Bounds of the model *)
MaxLen == 3         \* longest chunker input
MaxBudget == 8      \* largest budget tried
MaxMsgs == 3        \* most messages of the channel inside the time window
PageSize == 2       \* most messages the remote calls return in one page
MaxRetries == 5     \* largest max_retries tried for the retry decorator
MaxInitialSleep == 3 \* largest initial_sleep_time tried
MaxTextLen == 3     \* longest text given to replace_user_id_with_name
MaxRunMsgs == 2     \* most messages of one channel when runner is modelled
MaxJoins == 2       \* most join operations the remote side asks for in one
                    \* load_messages call

----------------------------------------------------------------------------
(* messages[::-1] *)
Reverse(s) == [i \in 1..Len(s) |-> s[Len(s) + 1 - i]]

----------------------------------------------------------------------------
(* src/lib/slack.py: constants *)
REPLY_PREFIX == " -> "

----------------------------------------------------------------------------
(* src/summarizer.py: estimate_openai_chat_token_count and                 *)
(* split_messages_by_token_count                                           *)

\* len(encoding.encode(text)): the text is given as its tokens
estimate_openai_chat_token_count(text) == Len(text)

\* message.startswith(REPLY_PREFIX)
StartsWithReplyPrefix(message) == Len(message) > 0 /\ message[1] = REPLY_PREFIX

\* lines 209-210: the context after looking at `message`
ThreadStartAfter(prev, message) ==
    IF ~StartsWithReplyPrefix(message) THEN <<message>> ELSE prev

\* line 213, mutated: >= in place of >
OverflowsAtBudget(count_so_far, count) == count_so_far + count >= MAX_BODY_TOKENS

\* line 213: if current_count + count > MAX_BODY_TOKENS
Overflows(count_so_far, count) == count_so_far + count > MAX_BODY_TOKENS

\* line 215: `if thread_start_message:` (None and "" are both falsy)
HasThreadStart(tsm) == tsm # <<>> /\ tsm[1] # <<>>

\* lines 215-219: the segment that is closed on overflow
ClosedSublist(tsm, sublist) ==
    IF HasThreadStart(tsm) THEN <<tsm[1]>> \o sublist ELSE sublist

\* The input lines tried: each is the sequence of its tokens.
LineAlice == <<"Alice", ":", " ", "h", "i">>
LineBob == <<"Bob", ":", " ", "hel", "lo">>
LineCarolReply == <<REPLY_PREFIX, "Carol", ":", " ", "yo">>
LineShort == <<"Dave:", " ok">>
LineShortReply == <<REPLY_PREFIX, "Eve: ok">>
LineLong == <<"Frank", ":", " ", "a", "very", "long", "line", "of", "text">>
LineLongReply == <<REPLY_PREFIX, "Grace", ":", " ", "a", "very", "long", "long", "reply">>
LineEmpty == <<>>

ChunkLines == {LineAlice, LineBob, LineCarolReply, LineShort, LineShortReply,
               LineLong, LineLongReply, LineEmpty}

\* no decorated function is being called
RetryIdle ==
    /\ max_retries = 0
    /\ initial_sleep_time = 0
    /\ retry_i = 0
    /\ sleep_time = 0
    /\ retry_pc = "idle"
    /\ calls = 0
    /\ backed_off = 0
    /\ func_outcome = <<>>
    /\ retry_error = <<>>

\* runner is not running
RunIdle ==
    /\ run_pc = "idle"
    /\ channel_i = 1
    /\ summary = <<>>
    /\ posted = {}
    /\ channel_summaries = <<>>
    /\ output_posts = <<>>
    /\ waited = 0
    /\ joins = 0
    /\ printed = {}

\* replace_user_id_with_name is not being called on its own
ReplaceIdle ==
    /\ replace_input = <<>>
    /\ replace_output = <<>>
    /\ replace_pc = "idle"

\* summarize is not being called on its own
SummarizeIdle ==
    /\ summarize_text = <<>>
    /\ summarize_max_retries = 0
    /\ initial_wait_time = 0
    /\ summarize_i = 0
    /\ wait_time = 0
    /\ response = <<>>
    /\ error_response = <<>>
    /\ service_calls = 0
    /\ service_failure = <<>>
    /\ slept = 0
    /\ interval_slept = FALSE
    /\ summarize_result = <<>>
    /\ summarize_pc = "idle"

\* load_messages is not running
LoadIdle ==
    /\ world = <<>>
    /\ messages_info = <<>>
    /\ next_cursor = <<>>
    /\ messages = <<>>
    /\ msg_i = 1
    /\ all_target_messages = <<>>
    /\ messages_texts = <<>>
    /\ load_result = <<>>
    /\ load_pc = "idle"

InitSplit ==
    /\ MAX_BODY_TOKENS \in 1..MaxBudget
    /\ \E n \in 0..MaxLen : split_messages \in [1..n -> ChunkLines]
    /\ split_i = 1
    /\ result = <<>>
    /\ current_sublist = <<>>
    /\ current_count = 0
    /\ thread_start_message = <<>>
    /\ split_pc = "loop"
    /\ LoadIdle
    /\ RetryIdle
    /\ ReplaceIdle
    /\ RunIdle
    /\ SummarizeIdle

\* One iteration of the for loop (lines 207-224), overflow branch
SplitOverflow ==
    /\ split_pc = "loop"
    /\ split_i <= Len(split_messages)
    /\ LET message == split_messages[split_i]
           count == estimate_openai_chat_token_count(message)
           tsm == ThreadStartAfter(thread_start_message, message)
       IN /\ Overflows(current_count, count)
          /\ thread_start_message' = tsm
          /\ result' = Append(result, ClosedSublist(tsm, current_sublist))
          /\ current_sublist' = <<>>
          /\ current_count' = 0
    /\ split_i' = split_i + 1
    /\ UNCHANGED <<MAX_BODY_TOKENS, split_messages, split_pc>>
    /\ UNCHANGED SplitFrame

\* One iteration of the for loop (lines 207-224), else branch
SplitAppend ==
    /\ split_pc = "loop"
    /\ split_i <= Len(split_messages)
    /\ LET message == split_messages[split_i]
           count == estimate_openai_chat_token_count(message)
       IN /\ ~Overflows(current_count, count)
          /\ thread_start_message' = ThreadStartAfter(thread_start_message, message)
          /\ current_sublist' = Append(current_sublist, message)
          /\ current_count' = current_count + count
    /\ split_i' = split_i + 1
    /\ UNCHANGED <<MAX_BODY_TOKENS, split_messages, result, split_pc>>
    /\ UNCHANGED SplitFrame

\* lines 226-230: append any remaining messages and return
SplitReturn ==
    /\ split_pc = "loop"
    /\ split_i > Len(split_messages)
    /\ result' = IF current_sublist # <<>> THEN Append(result, current_sublist)
                 ELSE result
    /\ split_pc' = "done"
    /\ UNCHANGED <<MAX_BODY_TOKENS, split_messages, split_i, current_sublist,
                   current_count, thread_start_message>>
    /\ UNCHANGED SplitFrame

NextSplit == SplitOverflow \/ SplitAppend \/ SplitReturn

SpecSplit == InitSplit /\ [][NextSplit]_vars

----------------------------------------------------------------------------
(* src/lib/slack.py: subtype lists *)
EXCLUDED_SUBTYPES == {"bot_message", "channel_archive", "me_message",
                      "message_change", "message_deleted", "message_replied",
                      "reminder_add"}
CHANNEL_SUBTYPES == {"channel_join", "channel_leave", "channel_topic",
                     "channel_purpose", "channel_name", "channel_unarchive"}
FILE_SUBTYPES == {"file_share", "file_comment", "file_mention"}
PIN_SUBTYPES == {"pinned_item", "unpinned_item"}
ORIGINAL_SUBTYPES == {"system"}
SYSTEM_SUBTYPES == CHANNEL_SUBTYPES \cup FILE_SUBTYPES \cup PIN_SUBTYPES
                      \cup ORIGINAL_SUBTYPES

----------------------------------------------------------------------------
(* The remote side: the workspace's users and the channel's messages.      *)
(* A message is a record: ts, thread_ts (optional), subtype (optional),    *)
(* bot_id (TRUE when the key is present), user, text, and fetch_replies    *)
(* (optional, set by load_messages).                                       *)

\* self.users, as users_list returned them
Users == << [id |-> "U1", name |-> "alice", display_name |-> "Alice"],
            [id |-> "U2", name |-> "bob", display_name |-> ""] >>

\* thread roots older than the time window
OldRoots == {-1, 0}

UserOf(k) == << "U1", "U2", "U9" >>[(k % 3) + 1]

TextOf(k) == << <<"hello">>,
                <<"see", "\n", "<@U1>">>,
                <<"in", "<#C1>", "with", "<@U9>">> >>[(k % 3) + 1]

RawMessage(k, tts, broadcast, bot) ==
    [ts |-> k, thread_ts |-> tts,
     subtype |-> IF broadcast THEN <<"thread_broadcast">> ELSE <<>>,
     bot_id |-> bot, user |-> UserOf(k), text |-> TextOf(k),
     fetch_replies |-> <<>>]

\* a plain message whose text is blank
BlankMessage(k) == [RawMessage(k, <<>>, FALSE, FALSE) EXCEPT !.text = <<" ">>]

\* a thread root whose text is blank
BlankRoot(k) == [RawMessage(k, <<k>>, FALSE, FALSE) EXCEPT !.text = <<" ">>]

\* "thread_ts" in message and message["ts"] != message["thread_ts"]
IsReply(m) == m.thread_ts # <<>> /\ m.ts # m.thread_ts[1]

\* the messages that may carry ts = k after the messages w: a plain message
\* or a thread root (of blank text too), or a reply to a root that exists
\* (older than the window or in w); a reply is also listed in the channel
\* history when it was broadcast
MessagesAt(k, w) ==
    LET roots == OldRoots \cup {j \in 1..Len(w) : w[j].thread_ts = <<j>>}
    IN  {RawMessage(k, <<>>, FALSE, bot) : bot \in BOOLEAN}
        \cup {BlankMessage(k), BlankRoot(k)}
        \cup {RawMessage(k, <<k>>, FALSE, bot) : bot \in BOOLEAN}
        \cup {RawMessage(k, <<j>>, bc, bot) :
                 j \in roots, bc \in BOOLEAN, bot \in BOOLEAN}

\* the message served as a thread's first element when its root is older
\* than the window
OldRoot(t) ==
    [ts |-> t, thread_ts |-> <<t>>, subtype |-> <<>>, bot_id |-> FALSE,
     user |-> "U1", text |-> <<"before">>, fetch_replies |-> <<>>]

InHistory(m) == ~IsReply(m) \/ m.subtype = <<"thread_broadcast">>

\* what conversations.history lists for the window: newest first
HistoryList == Reverse(SelectSeq(world, InHistory))

\* what conversations.replies lists for ts = t: the message itself, then the
\* replies of the thread it roots, oldest first
ThreadList(t) ==
    LET first == IF t \in 1..Len(world) THEN world[t] ELSE OldRoot(t)
        replies == SelectSeq(world, LAMBDA m : IsReply(m) /\ m.thread_ts[1] = t)
    IN  <<first>> \o replies

\* one page of a listing, from the cursor on
Page(list, cursor) ==
    LET off == IF cursor = <<>> THEN 0 ELSE cursor[1]
        last == IF off + PageSize < Len(list) THEN off + PageSize ELSE Len(list)
    IN  [messages |-> SubSeq(list, off + 1, last),
         has_more |-> off + PageSize < Len(list),
         next_cursor |-> off + PageSize]

\* lines 148-155
conversations_history(cursor) == Page(HistoryList, cursor)

\* lines 157-165
conversations_replies(timestamp, cursor) == Page(ThreadList(timestamp), cursor)

----------------------------------------------------------------------------
(* src/lib/slack.py: formatting *)

\* get_user_name: <<>> is None
get_user_name(user_id) ==
    LET matching_users == SelectSeq(Users, LAMBDA user : user.id = user_id)
    IN  IF Len(matching_users) > 0 THEN <<matching_users[1].display_name>>
        ELSE <<>>

\* the <@ID> atoms and the ID each holds (pattern <@([A-Z0-9]+)>)
UserRefs == {"<@U1>", "<@U2>", "<@U9>"}
UserRefId(atom) ==
    CASE atom = "<@U1>" -> "U1" [] atom = "<@U2>" -> "U2" [] atom = "<@U9>" -> "U9"

\* replace_user_id_with_name
replace_user_id_with_name(body_text) ==
    [i \in 1..Len(body_text) |->
        IF body_text[i] \in UserRefs
        THEN LET user_id == UserRefId(body_text[i])
                 known == SelectSeq(Users, LAMBDA user : user.id = user_id)
             IN  IF Len(known) > 0 THEN known[1].name ELSE user_id
        ELSE body_text[i]]

\* the <#ID> atoms (pattern <#[A-Z0-9]+>)
ChannelRefs == {"<#C1>"}

\* line 302: re.sub(r"<#[A-Z0-9]+>", " other channel ", body_text)
RedactChannels(body_text) ==
    [i \in 1..Len(body_text) |->
        IF body_text[i] \in ChannelRefs THEN " other channel " ELSE body_text[i]]

\* line 296: message["text"].replace("\n", "\\n")
EscapeNewlines(text) ==
    [i \in 1..Len(text) |-> IF text[i] = "\n" THEN "\\n" ELSE text[i]]

Whitespace == {" ", "\n", "\t"}

\* line 285: len(message["text"].strip()) == 0
IsBlank(text) == \A i \in 1..Len(text) : text[i] \in Whitespace

\* lines 289-293
SpeakerName(message) ==
    IF message.subtype # <<>> /\ message.subtype[1] \in SYSTEM_SUBTYPES
    THEN "System"
    ELSE LET name == get_user_name(message.user)
         IN  IF name # <<>> /\ name[1] # "" THEN name[1] ELSE "Somebody"

\* lines 295-311: the line of one message
FormatMessage(message) ==
    LET body_text == RedactChannels(replace_user_id_with_name(
                         EscapeNewlines(message.text)))
        line == <<SpeakerName(message), ": ">> \o body_text
    IN  IF IsReply(message) THEN <<REPLY_PREFIX>> \o line ELSE line

\* line 283: messages[::-1], without the messages line 285 skips
Kept(msgs) == SelectSeq(Reverse(msgs), LAMBDA m : ~IsBlank(m.text))

\* lines 282-311
FormatAll(msgs) == [i \in 1..Len(Kept(msgs)) |-> FormatMessage(Kept(msgs)[i])]

----------------------------------------------------------------------------
(* src/lib/slack.py: load_messages *)

\* lines 207-208
NotExcluded(m) ==
    /\ ~(m.subtype # <<>> /\ m.subtype[1] \in EXCLUDED_SUBTYPES)
    /\ ~m.bot_id

\* lines 226-233
dummy_thread_start(thread_ts) ==
    [ts |-> thread_ts, thread_ts |-> <<>>, subtype |-> <<"system">>,
     bot_id |-> FALSE, user |-> "System",
     text |-> <<"System", ": ", "Earlier message not retrieved">>,
     fetch_replies |-> <<TRUE>>]

\* message["fetch_replies"] = value
Marked(message, value) == [message EXCEPT !.fetch_replies = <<value>>]

\* line 222: any(msg["ts"] == message["thread_ts"] for msg in messages)
ThreadStartPresent(msgs, thread_ts) == \E i \in 1..Len(msgs) : msgs[i].ts = thread_ts

\* line 225, mutated: the placeholder is added for every orphan reply
AlwaysNeedsDummy(added_thread_starts, thread_ts) == TRUE

\* line 225: if message["thread_ts"] not in added_thread_starts
NeedsDummy(added_thread_starts, thread_ts) == thread_ts \notin added_thread_starts

\* lines 211-240: the loop over the filtered messages, from position i on
RECURSIVE ClassifyFrom(_, _, _, _)
ClassifyFrom(msgs, i, filtered_messages, added_thread_starts) ==
    IF i > Len(msgs) THEN filtered_messages
    ELSE LET message == msgs[i] IN
      IF message.thread_ts # <<>>
      THEN IF message.ts = message.thread_ts[1]
           THEN ClassifyFrom(msgs, i + 1,
                    Append(filtered_messages, Marked(message, TRUE)),
                    added_thread_starts)
           ELSE IF ThreadStartPresent(msgs, message.thread_ts[1])
           THEN ClassifyFrom(msgs, i + 1, filtered_messages, added_thread_starts)
           ELSE IF NeedsDummy(added_thread_starts, message.thread_ts[1])
           THEN ClassifyFrom(msgs, i + 1,
                    filtered_messages
                       \o <<dummy_thread_start(message.thread_ts[1]),
                            Marked(message, TRUE)>>,
                    added_thread_starts \cup {message.thread_ts[1]})
           ELSE ClassifyFrom(msgs, i + 1,
                    Append(filtered_messages, Marked(message, TRUE)),
                    added_thread_starts)
      ELSE ClassifyFrom(msgs, i + 1,
               Append(filtered_messages, Marked(message, FALSE)),
               added_thread_starts)

\* lines 206-242
FilteredMessages(info) == ClassifyFrom(SelectSeq(info, NotExcluded), 1, <<>>, {})

\* line 251, mutated: the mark is ignored and every message is fetched for
FetchRepliesAlways(message) == TRUE

\* line 251: message.get("fetch_replies", True)
GetFetchReplies(message) ==
    IF message.fetch_replies = <<>> THEN TRUE ELSE message.fetch_replies[1]

\* line 272: thread_replies["messages"][1:]
AllButFirst(msgs) == IF msgs = <<>> THEN <<>> ELSE Tail(msgs)

\* split_messages_by_token_count is not running
SplitIdle ==
    /\ MAX_BODY_TOKENS = 0
    /\ split_messages = <<>>
    /\ split_i = 1
    /\ result = <<>>
    /\ current_sublist = <<>>
    /\ current_count = 0
    /\ thread_start_message = <<>>
    /\ split_pc = "idle"

\* the channel is empty and load_messages has not been called
InitLoad ==
    /\ world = <<>>
    /\ messages_info = <<>>
    /\ next_cursor = <<>>
    /\ messages = <<>>
    /\ msg_i = 1
    /\ all_target_messages = <<>>
    /\ messages_texts = <<>>
    /\ load_result = <<>>
    /\ load_pc = "idle"
    /\ SplitIdle
    /\ RetryIdle
    /\ ReplaceIdle
    /\ RunIdle
    /\ SummarizeIdle

\* the remote side: somebody posts the next message of the time window
PostMessage ==
    /\ load_pc = "idle"
    /\ Len(world) < MaxMsgs
    /\ \E m \in MessagesAt(Len(world) + 1, world) : world' = Append(world, m)
    /\ UNCHANGED <<messages_info, next_cursor, messages, msg_i,
                   all_target_messages, messages_texts, load_result, load_pc>>
    /\ UNCHANGED LoadFrame

\* lines 167-168: load_messages is called for the window
CallLoadMessagesStep ==
    /\ load_pc = "idle"
    /\ messages_info' = <<>>
    /\ next_cursor' = <<>>
    /\ load_pc' = "history"
    /\ UNCHANGED <<world, messages, msg_i, all_target_messages, messages_texts,
                   load_result>>

CallLoadMessages == CallLoadMessagesStep /\ UNCHANGED LoadFrame

\* line 194, mutated: the page replaces what was accumulated
Replaced(info, page_messages) == page_messages

\* line 194: messages_info.extend(result["messages"])
Extended(info, page_messages) == info \o page_messages

\* lines 170-199: one page of the channel history
FetchHistoryPageStep ==
    /\ load_pc = "history"
    /\ LET page == conversations_history(next_cursor)
       IN  /\ messages_info' = Extended(messages_info, page.messages)
           /\ IF page.has_more
              THEN /\ next_cursor' = <<page.next_cursor>>
                   /\ load_pc' = "history"
              ELSE /\ next_cursor' = next_cursor
                   /\ load_pc' = "classify"
    /\ UNCHANGED <<world, messages, msg_i, all_target_messages, messages_texts,
                   load_result>>

FetchHistoryPage == FetchHistoryPageStep /\ UNCHANGED LoadFrame

\* lines 206-247: filter, classify, and return None when nothing is left
Classify ==
    /\ load_pc = "classify"
    /\ LET filtered_messages == FilteredMessages(messages_info)
       IN  /\ messages' = filtered_messages
           /\ load_pc' = IF Len(filtered_messages) < 1 THEN "returned" ELSE "replies"
    /\ msg_i' = 1
    /\ all_target_messages' = <<>>
    /\ UNCHANGED <<world, messages_info, next_cursor, messages_texts, load_result>>
    /\ UNCHANGED LoadFrame

\* lines 248-252: the next message of the loop
TakeMessage ==
    /\ load_pc = "replies"
    /\ msg_i <= Len(messages)
    /\ LET message == messages[msg_i]
       IN  /\ all_target_messages' = Append(all_target_messages, message)
           /\ IF GetFetchReplies(message)
              THEN /\ next_cursor' = <<>>
                   /\ load_pc' = "reply_page"
                   /\ msg_i' = msg_i
              ELSE /\ next_cursor' = next_cursor
                   /\ load_pc' = "replies"
                   /\ msg_i' = msg_i + 1
    /\ UNCHANGED <<world, messages_info, messages, messages_texts, load_result>>
    /\ UNCHANGED LoadFrame

\* lines 253-278: one page of the replies of messages[msg_i]
FetchRepliesPageStep ==
    /\ load_pc = "reply_page"
    /\ LET thread_replies == conversations_replies(messages[msg_i].ts, next_cursor)
       IN  /\ all_target_messages' =
                 all_target_messages \o AllButFirst(thread_replies.messages)
           /\ IF thread_replies.has_more
              THEN /\ next_cursor' = <<thread_replies.next_cursor>>
                   /\ load_pc' = "reply_page"
                   /\ msg_i' = msg_i
              ELSE /\ next_cursor' = next_cursor
                   /\ load_pc' = "replies"
                   /\ msg_i' = msg_i + 1
    /\ UNCHANGED <<world, messages_info, messages, messages_texts, load_result>>

FetchRepliesPage == FetchRepliesPageStep /\ UNCHANGED LoadFrame

\* lines 317-319, mutated: the list is returned even when it is empty
ReturnedAlways(texts) == <<texts>>

\* lines 317-319: if len(messages_texts) == 0: return None
Returned(texts) == IF Len(texts) = 0 THEN <<>> ELSE <<texts>>

\* lines 280-319: format the assembled messages and return
Format ==
    /\ load_pc = "replies"
    /\ msg_i > Len(messages)
    /\ messages' = all_target_messages
    /\ messages_texts' = FormatAll(all_target_messages)
    /\ load_result' = Returned(FormatAll(all_target_messages))
    /\ load_pc' = "returned"
    /\ UNCHANGED <<world, messages_info, next_cursor, msg_i, all_target_messages>>
    /\ UNCHANGED LoadFrame

NextLoad ==
    \/ PostMessage
    \/ CallLoadMessages
    \/ FetchHistoryPage
    \/ Classify
    \/ TakeMessage
    \/ FetchRepliesPage
    \/ Format

SpecLoad == InitLoad /\ [][NextLoad]_vars

----------------------------------------------------------------------------
(* src/lib/utils.py: retry.  The wrapper of a decorated function, stepped   *)
(* one invocation of func at a time; what func does at an invocation is the *)
(* environment's choice: it returns, or raises an error of some class.      *)

\* the error_type every @retry of the program passes
error_type == "SlackApiError"

Returns == [kind |-> "return", class |-> "", error |-> ""]
Raises(class, error) == [kind |-> "raise", class |-> class, error |-> error]

\* what one invocation of func may do
Outcomes == {Returns,
             Raises("SlackApiError", "ratelimited"),
             Raises("SlackApiError", "not_in_channel"),
             Raises("TimeoutError", "timed out")}

\* line 38, mutated: every exception is caught
CatchesAll(outcome) == outcome.kind = "raise"

\* line 38: except error_type as err
Catches(outcome) == outcome.kind = "raise" /\ outcome.class = error_type

\* line 39: if i == max_retries - 1
LastAttempt(i) == i = max_retries - 1

\* line 42, mutated: the sleep time is not doubled
SameSleepTime(time) == time

\* line 42: sleep_time *= 2
NextSleepTime(time) == time * 2

\* lines 33-34: the wrapper is entered; range(0) is empty and the wrapper
\* then returns None without invoking func
WrapperEnter ==
    /\ retry_pc # "invoke"
    /\ sleep_time' = initial_sleep_time
    /\ retry_i' = 0
    /\ calls' = 0
    /\ backed_off' = 0
    /\ func_outcome' = <<>>
    /\ retry_error' = <<>>
    /\ retry_pc' = IF max_retries > 0 THEN "invoke" ELSE "returned"
    /\ UNCHANGED <<max_retries, initial_sleep_time>>

\* lines 35-37: func is invoked and returns
WrapperReturns(outcome) ==
    /\ retry_pc = "invoke"
    /\ outcome.kind = "return"
    /\ calls' = calls + 1
    /\ func_outcome' = <<outcome>>
    /\ backed_off' = 0
    /\ retry_pc' = "returned"
    /\ UNCHANGED <<max_retries, initial_sleep_time, retry_i, sleep_time, retry_error>>

\* lines 35-42: func is invoked and raises an error the wrapper catches
\* before the last attempt: sleep, double, next iteration
WrapperRetries(outcome) ==
    /\ retry_pc = "invoke"
    /\ Catches(outcome)
    /\ ~LastAttempt(retry_i)
    /\ calls' = calls + 1
    /\ func_outcome' = <<outcome>>
    /\ backed_off' = sleep_time
    /\ sleep_time' = NextSleepTime(sleep_time)
    /\ retry_i' = retry_i + 1
    /\ retry_pc' = IF retry_i + 1 < max_retries THEN "invoke" ELSE "returned"
    /\ UNCHANGED <<max_retries, initial_sleep_time, retry_error>>

\* lines 35-40: func is invoked and raises an error that leaves the wrapper:
\* one it catches at the last attempt (raise err), or one it does not catch
WrapperRaises(outcome) ==
    /\ retry_pc = "invoke"
    /\ outcome.kind = "raise"
    /\ Catches(outcome) => LastAttempt(retry_i)
    /\ calls' = calls + 1
    /\ func_outcome' = <<outcome>>
    /\ backed_off' = 0
    /\ retry_error' = <<outcome>>
    /\ retry_pc' = "raised"
    /\ UNCHANGED <<max_retries, initial_sleep_time, retry_i, sleep_time>>

\* what the wrapper's steps leave alone when it is called on its own
RetryFrame == <<split_vars, load_vars, replace_vars, summarize_vars, run_vars>>

InitRetry ==
    /\ max_retries \in 0..MaxRetries
    /\ initial_sleep_time \in 1..MaxInitialSleep
    /\ retry_i = 0
    /\ sleep_time = 0
    /\ retry_pc = "idle"
    /\ calls = 0
    /\ backed_off = 0
    /\ func_outcome = <<>>
    /\ retry_error = <<>>
    /\ SplitIdle
    /\ LoadIdle
    /\ ReplaceIdle
    /\ RunIdle
    /\ SummarizeIdle

CallWrapped == WrapperEnter /\ UNCHANGED RetryFrame

InvokeReturns == WrapperReturns(Returns) /\ UNCHANGED RetryFrame

InvokeRetries ==
    \E outcome \in Outcomes : WrapperRetries(outcome) /\ UNCHANGED RetryFrame

InvokeRaises ==
    \E outcome \in Outcomes : WrapperRaises(outcome) /\ UNCHANGED RetryFrame

NextRetry == CallWrapped \/ InvokeReturns \/ InvokeRetries \/ InvokeRaises

SpecRetry == InitRetry /\ [][NextRetry]_vars

----------------------------------------------------------------------------
(* src/lib/slack.py: replace_user_id_with_name called on a text of its own *)

\* the atoms of the texts tried: words, user references, a channel reference
TextAtoms == {"hi", "@", "<#C1>"} \cup UserRefs

ReplaceFrame == <<split_vars, load_vars, retry_vars, run_vars, summarize_vars>>

InitReplace ==
    /\ \E n \in 0..MaxTextLen : replace_input \in [1..n -> TextAtoms]
    /\ replace_output = <<>>
    /\ replace_pc = "called"
    /\ SplitIdle
    /\ LoadIdle
    /\ RetryIdle
    /\ RunIdle
    /\ SummarizeIdle

\* lines 358-364
ReplaceUserIds ==
    /\ replace_pc = "called"
    /\ replace_output' = <<replace_user_id_with_name(replace_input)>>
    /\ replace_pc' = "returned"
    /\ UNCHANGED replace_input
    /\ UNCHANGED ReplaceFrame

NextReplace == ReplaceUserIds

SpecReplace == InitReplace /\ [][NextReplace]_vars

----------------------------------------------------------------------------
(* src/summarizer.py: runner, with load_messages (src/lib/slack.py) stepped *)
(* one remote invocation at a time.  Every remote operation of              *)
(* load_messages is a function decorated with retry: an invocation returns  *)
(* a response, returns None, or raises.  summarize and post_summary are     *)
(* taken to succeed.                                                        *)

\* lines 144, 148, 157: @retry(max_retries=5, initial_sleep_time=10, ...)
LOAD_MAX_RETRIES == 5
LOAD_INITIAL_SLEEP_TIME == 10

POST_SUMMARY_TAG == "#post-summary"

\* slack_client.channels, as _get_channels_info returned them
Channels == << [id |-> "C1", purpose |-> <<"daily", POST_SUMMARY_TAG>>],
               [id |-> "C2", purpose |-> <<"random">>] >>

\* an invocation that returns None, and a join whose response has ok = False
ReturnsNone == [kind |-> "return", class |-> "NoneType", error |-> ""]
ReturnsNotOk == [kind |-> "return", class |-> "", error |-> "not ok"]

\* the messages that may carry ts = k in a channel runner visits: a plain
\* message, a message of blank text, a bot's message, a thread root, a reply
\* to a root in w, a broadcast reply to a root older than the window
RunMessagesAt(k, w) ==
    {RawMessage(k, <<>>, FALSE, FALSE),
     BlankMessage(k),
     RawMessage(k, <<>>, FALSE, TRUE),
     RawMessage(k, <<k>>, FALSE, FALSE),
     RawMessage(k, <<0>>, TRUE, FALSE)}
    \cup {RawMessage(k, <<j>>, FALSE, FALSE) :
             j \in {j \in 1..Len(w) : w[j].thread_ts = <<j>>}}

\* the emoji atoms (emoji.replace_emoji and the pattern :[-_a-zA-Z0-9]+?:)
EmojiAtoms == {":smile:", ":+1:"}

\* utils.remove_emoji
remove_emoji(text) == SelectSeq(text, LAMBDA atom : atom \notin EmojiAtoms)

\* _wait_api_call, mutated: no sleep
AfterNoWait(seconds) == seconds

\* _wait_api_call: time.sleep(60 / 20)
AfterWaitApiCall(seconds) == seconds + (60 \div 20)

\* the decorated functions of load_messages are not being called
LoadWrappersIdle ==
    /\ max_retries = LOAD_MAX_RETRIES
    /\ initial_sleep_time = LOAD_INITIAL_SLEEP_TIME
    /\ retry_i = 0
    /\ sleep_time = 0
    /\ retry_pc = "idle"
    /\ calls = 0
    /\ backed_off = 0
    /\ func_outcome = <<>>
    /\ retry_error = <<>>

InitRun ==
    /\ MAX_BODY_TOKENS = MaxBudget
    /\ split_messages = <<>>
    /\ split_i = 1
    /\ result = <<>>
    /\ current_sublist = <<>>
    /\ current_count = 0
    /\ thread_start_message = <<>>
    /\ split_pc = "idle"
    /\ LoadIdle
    /\ LoadWrappersIdle
    /\ ReplaceIdle
    /\ SummarizeIdle
    /\ run_pc = "load"
    /\ channel_i = 1
    /\ summary = <<>>
    /\ posted = {}
    /\ channel_summaries = <<>>
    /\ output_posts = <<>>
    /\ waited = 0
    /\ joins = 0
    /\ printed = {}

\* the runner's variables that the steps of load_messages leave alone
RunnerState == <<run_pc, channel_i, summary, posted, channel_summaries,
                 output_posts>>

\* the remote side: somebody posts the next message of the current channel
ChannelPost ==
    /\ run_pc = "load"
    /\ load_pc = "idle"
    /\ Len(world) < MaxRunMsgs
    /\ \E m \in RunMessagesAt(Len(world) + 1, world) : world' = Append(world, m)
    /\ UNCHANGED <<messages_info, next_cursor, messages, msg_i,
                   all_target_messages, messages_texts, load_result, load_pc>>
    /\ UNCHANGED LoadFrame

\* summarizer.py lines 283-284: load_messages is called for the channel
RunCallLoadMessages == run_pc = "load" /\ CallLoadMessages

\* slack.py lines 171-172, 181-182, 254-255: _wait_api_call, then the
\* decorated function is called
WaitApiCall ==
    /\ load_pc \in {"history", "join", "reply_page"}
    /\ waited' = AfterWaitApiCall(waited)
    /\ joins' = IF load_pc = "join" THEN joins + 1 ELSE joins
    /\ WrapperEnter
    /\ UNCHANGED <<split_vars, load_vars, replace_vars, summarize_vars,
                   RunnerState, printed>>

\* utils.py lines 38-42: an invocation fails and the wrapper will retry
RemoteFails ==
    /\ load_pc \in {"history", "join", "reply_page"}
    /\ \E outcome \in Outcomes : WrapperRetries(outcome)
    /\ waited' = 0
    /\ UNCHANGED <<split_vars, load_vars, replace_vars, summarize_vars,
                   RunnerState, joins, printed>>

\* an error leaves load_messages: any error of the join (raised inside the
\* except clause of line 179), an error of another class anywhere
Propagates ==
    /\ load_pc \in {"history", "join", "reply_page"}
    /\ \E outcome \in Outcomes :
          /\ WrapperRaises(outcome)
          /\ load_pc = "join" \/ ~Catches(outcome)
    /\ load_pc' = "raised"
    /\ run_pc' = "raised"
    /\ waited' = 0
    /\ UNCHANGED <<world, messages_info, next_cursor, messages, msg_i,
                   all_target_messages, messages_texts, load_result>>
    /\ UNCHANGED <<split_vars, replace_vars, summarize_vars,
                   channel_i, summary, posted,
                   channel_summaries, output_posts, joins, printed>>

\* slack.py lines 172-199: the history fetch returns a page
HistoryReturnsPage ==
    /\ WrapperReturns(Returns)
    /\ FetchHistoryPageStep
    /\ waited' = 0
    /\ UNCHANGED <<split_vars, replace_vars, summarize_vars,
                   RunnerState, joins, printed>>

\* slack.py lines 190-192
HistoryReturnsNone ==
    /\ load_pc = "history"
    /\ WrapperReturns(ReturnsNone)
    /\ printed' = printed \cup {<<"Error: Result is None">>}
    /\ load_result' = <<>>
    /\ load_pc' = "returned"
    /\ waited' = 0
    /\ UNCHANGED <<world, messages_info, next_cursor, messages, msg_i,
                   all_target_messages, messages_texts>>
    /\ UNCHANGED <<split_vars, replace_vars, summarize_vars,
                   RunnerState, joins>>

\* slack.py lines 179-180: the history fetch ends with not_in_channel
HistoryNotInChannel ==
    /\ load_pc = "history"
    /\ joins < MaxJoins
    /\ WrapperRaises(Raises("SlackApiError", "not_in_channel"))
    /\ load_pc' = "join"
    /\ waited' = 0
    /\ UNCHANGED <<world, messages_info, next_cursor, messages, msg_i,
                   all_target_messages, messages_texts, load_result>>
    /\ UNCHANGED <<split_vars, replace_vars, summarize_vars,
                   RunnerState, joins, printed>>

\* slack.py lines 179, 187-188: the history fetch ends with another error
HistoryError ==
    /\ load_pc = "history"
    /\ \E outcome \in Outcomes :
          /\ Catches(outcome)
          /\ outcome.error # "not_in_channel"
          /\ WrapperRaises(outcome)
          /\ printed' = printed \cup {<<"Error: ", outcome.error>>}
    /\ load_result' = <<>>
    /\ load_pc' = "returned"
    /\ waited' = 0
    /\ UNCHANGED <<world, messages_info, next_cursor, messages, msg_i,
                   all_target_messages, messages_texts>>
    /\ UNCHANGED <<split_vars, replace_vars, summarize_vars,
                   RunnerState, joins>>

\* slack.py lines 182-186: the join returns ok, the history loop continues
JoinOk ==
    /\ load_pc = "join"
    /\ WrapperReturns(Returns)
    /\ load_pc' = "history"
    /\ waited' = 0
    /\ UNCHANGED <<world, messages_info, next_cursor, messages, msg_i,
                   all_target_messages, messages_texts, load_result>>
    /\ UNCHANGED <<split_vars, replace_vars, summarize_vars,
                   RunnerState, joins, printed>>

\* slack.py lines 183-185: the join's response is not ok: sys.exit(1)
JoinNotOk ==
    /\ load_pc = "join"
    /\ WrapperReturns(ReturnsNotOk)
    /\ printed' = printed \cup {<<"Error: Failed conversations_join()">>}
    /\ load_pc' = "exited"
    /\ run_pc' = "exited"
    /\ waited' = 0
    /\ UNCHANGED <<world, messages_info, next_cursor, messages, msg_i,
                   all_target_messages, messages_texts, load_result>>
    /\ UNCHANGED <<split_vars, replace_vars, summarize_vars,
                   channel_i, summary, posted,
                   channel_summaries, output_posts, joins>>

\* slack.py lines 255-278: the reply fetch returns a page
RepliesReturnsPage ==
    /\ WrapperReturns(Returns)
    /\ FetchRepliesPageStep
    /\ waited' = 0
    /\ UNCHANGED <<split_vars, replace_vars, summarize_vars,
                   RunnerState, joins, printed>>

\* slack.py lines 263-269: the reply loop of messages[msg_i] is left
BreakReplies ==
    /\ load_pc' = "replies"
    /\ msg_i' = msg_i + 1
    /\ UNCHANGED <<world, messages_info, next_cursor, messages,
                   all_target_messages, messages_texts, load_result>>

\* slack.py lines 267-269
RepliesReturnsNone ==
    /\ load_pc = "reply_page"
    /\ WrapperReturns(ReturnsNone)
    /\ printed' = printed \cup {<<"Error: Thread replies result is None">>}
    /\ BreakReplies
    /\ waited' = 0
    /\ UNCHANGED <<split_vars, replace_vars, summarize_vars,
                   RunnerState, joins>>

\* slack.py lines 263-265
RepliesError ==
    /\ load_pc = "reply_page"
    /\ \E outcome \in Outcomes :
          /\ Catches(outcome)
          /\ WrapperRaises(outcome)
          /\ printed' = printed \cup {<<"Error: Fetching thread replies: ",
                                       outcome.error>>}
    /\ BreakReplies
    /\ waited' = 0
    /\ UNCHANGED <<split_vars, replace_vars, summarize_vars,
                   RunnerState, joins>>

\* the for loop of summarizer.py line 279 moves to the next channel; what
\* the iteration left in the locals is dead from here on
NextChannel ==
    /\ channel_i' = channel_i + 1
    /\ run_pc' = IF channel_i + 1 > Len(Channels) THEN "finish" ELSE "load"
    /\ world' = <<>>
    /\ messages_info' = <<>>
    /\ next_cursor' = <<>>
    /\ messages' = <<>>
    /\ msg_i' = 1
    /\ all_target_messages' = <<>>
    /\ messages_texts' = <<>>
    /\ load_result' = <<>>
    /\ load_pc' = "idle"
    /\ retry_i' = 0
    /\ sleep_time' = 0
    /\ retry_pc' = "idle"
    /\ calls' = 0
    /\ backed_off' = 0
    /\ func_outcome' = <<>>
    /\ retry_error' = <<>>
    /\ split_messages' = <<>>
    /\ split_i' = 1
    /\ result' = <<>>
    /\ current_sublist' = <<>>
    /\ current_count' = 0
    /\ thread_start_message' = <<>>
    /\ split_pc' = "idle"
    /\ summary' = <<>>
    /\ waited' = 0
    /\ joins' = 0
    /\ printed' = {}
    /\ UNCHANGED <<MAX_BODY_TOKENS, max_retries, initial_sleep_time,
                   replace_vars, summarize_vars>>

\* summarizer.py lines 288-289: if messages is None: continue
SkipChannel ==
    /\ run_pc = "load"
    /\ load_pc = "returned"
    /\ load_result = <<>>
    /\ NextChannel
    /\ UNCHANGED <<posted, channel_summaries, output_posts>>

\* summarizer.py lines 291-295: remove the emoji, call the chunker; the
\* locals of the load_messages call that returned are gone
StartSplit ==
    /\ run_pc = "load"
    /\ load_pc = "returned"
    /\ load_result # <<>>
    /\ split_messages' = [i \in 1..Len(load_result[1]) |->
                             remove_emoji(load_result[1][i])]
    /\ split_i' = 1
    /\ result' = <<>>
    /\ current_sublist' = <<>>
    /\ current_count' = 0
    /\ thread_start_message' = <<>>
    /\ split_pc' = "loop"
    /\ run_pc' = "split"
    /\ messages_info' = <<>>
    /\ next_cursor' = <<>>
    /\ messages' = <<>>
    /\ msg_i' = 1
    /\ all_target_messages' = <<>>
    /\ messages_texts' = <<>>
    /\ retry_i' = 0
    /\ sleep_time' = 0
    /\ retry_pc' = "idle"
    /\ calls' = 0
    /\ backed_off' = 0
    /\ func_outcome' = <<>>
    /\ retry_error' = <<>>
    /\ waited' = 0
    /\ joins' = 0
    /\ printed' = {}
    /\ UNCHANGED <<MAX_BODY_TOKENS, world, load_result, load_pc, max_retries,
                   initial_sleep_time, replace_vars, summarize_vars,
                   channel_i, summary, posted,
                   channel_summaries, output_posts>>

\* the chunker runs inside runner
RunSplit == run_pc = "split" /\ NextSplit

\* summarizer.py lines 294-312: one summarize call per segment, the post
\* into a tagged channel, the entry of channel_summaries
SummarizeAndPost ==
    /\ run_pc = "split"
    /\ split_pc = "done"
    /\ LET channel == Channels[channel_i]
       IN  /\ summary' = [i \in 1..Len(result) |-> "summary"]
           /\ posted' = IF \E i \in 1..Len(channel.purpose) :
                               channel.purpose[i] = POST_SUMMARY_TAG
                        THEN posted \cup {channel.id} ELSE posted
           /\ channel_summaries' = Append(channel_summaries, channel.id)
    /\ run_pc' = "next"
    /\ UNCHANGED <<split_vars, load_vars, retry_vars, replace_vars, summarize_vars,
                   channel_i,
                   output_posts, waited, joins, printed>>

\* the end of the iteration of the for loop of line 279
EndIteration ==
    /\ run_pc = "next"
    /\ NextChannel
    /\ UNCHANGED <<posted, channel_summaries, output_posts>>

\* summarizer.py lines 313-324: the consolidated post, when OUTPUT_SLACK
\* is set
PostSummaries ==
    /\ run_pc = "finish"
    /\ \E OUTPUT_SLACK \in BOOLEAN :
          output_posts' = IF OUTPUT_SLACK THEN <<"title">> \o channel_summaries
                          ELSE <<>>
    /\ run_pc' = "done"
    /\ UNCHANGED <<split_vars, load_vars, retry_vars, replace_vars, summarize_vars,
                   channel_i,
                   summary, posted, channel_summaries, waited, joins, printed>>

NextRun ==
    \/ ChannelPost
    \/ RunCallLoadMessages
    \/ WaitApiCall
    \/ RemoteFails
    \/ Propagates
    \/ HistoryReturnsPage
    \/ HistoryReturnsNone
    \/ HistoryNotInChannel
    \/ HistoryError
    \/ JoinOk
    \/ JoinNotOk
    \/ Classify
    \/ TakeMessage
    \/ RepliesReturnsPage
    \/ RepliesReturnsNone
    \/ RepliesError
    \/ Format
    \/ SkipChannel
    \/ StartSplit
    \/ RunSplit
    \/ SummarizeAndPost
    \/ EndIteration
    \/ PostSummaries

SpecRun == InitRun /\ [][NextRun]_vars

----------------------------------------------------------------------------
(* Claims about split_messages_by_token_count, checked under SpecSplit *)

RECURSIVE SumSeq(_)
SumSeq(s) == IF s = <<>> THEN 0 ELSE Head(s) + SumSeq(Tail(s))

\* summed estimated token count of a list of lines
TokenCost(lines) ==
    SumSeq([k \in 1..Len(lines) |-> estimate_openai_chat_token_count(lines[k])])

\* the line occurs in some segment of the result
InSomeSegment(line) ==
    \E s \in 1..Len(result) : \E k \in 1..Len(result[s]) : result[s][k] = line

\* C1: no line is lost: every input line appears in at least one returned
\* segment, and after each iteration the line just processed is in the
\* segment being built (appended to it, or, when its addition would have
\* exceeded the budget, as the first line of the segment started for it).
C1_NoLineLost ==
    /\ split_pc = "done" =>
          \A i \in 1..Len(split_messages) : InSomeSegment(split_messages[i])
    /\ (split_pc = "loop" /\ split_i > 1) =>
          /\ current_sublist # <<>>
          /\ current_sublist[Len(current_sublist)] = split_messages[split_i - 1]

\* C2: every returned segment costs at most MAX_BODY_TOKENS, unless it is a
\* single line whose own cost exceeds MAX_BODY_TOKENS.
C2_SegmentWithinBudget ==
    split_pc = "done" =>
       \A s \in 1..Len(result) :
          \/ TokenCost(result[s]) <= MAX_BODY_TOKENS
          \/ /\ Len(result[s]) = 1
             /\ estimate_openai_chat_token_count(result[s][1]) > MAX_BODY_TOKENS

\* C3: a line whose own cost exceeds the budget is returned as a segment
\* holding exactly that line, and in no other segment, wherever it occurs and
\* whether or not it carries the reply prefix.
C3_OversizedLineAlone ==
    split_pc = "done" =>
       \A i \in 1..Len(split_messages) :
          estimate_openai_chat_token_count(split_messages[i]) > MAX_BODY_TOKENS =>
             /\ \E s \in 1..Len(result) : result[s] = <<split_messages[i]>>
             /\ \A s \in 1..Len(result) :
                   (\E k \in 1..Len(result[s]) : result[s][k] = split_messages[i])
                      => result[s] = <<split_messages[i]>>

\* C4: a non-empty input whose summed cost is at most the budget comes back
\* as exactly one segment, equal to the whole input in the same order.
C4_UnderBudgetOneSegment ==
    (split_pc = "done" /\ split_messages # <<>>
       /\ TokenCost(split_messages) <= MAX_BODY_TOKENS)
    => result = <<split_messages>>

\* C4 witness: an input of several lines that together fit the budget exactly
\* has been chunked into the one segment.
C4_Witness ==
    /\ split_pc = "done"
    /\ Len(split_messages) >= 2
    /\ TokenCost(split_messages) = MAX_BODY_TOKENS
    /\ result = <<split_messages>>

\* C5: "Alice: hi", "Bob: hello", " -> Carol: yo" (5 tokens each) with a
\* budget of 8 come back as three segments of one line each: the context
\* prepended to a closed segment is the last non-reply line seen before the
\* line that triggered the overflow.
C5_ThreeSegments ==
    (split_pc = "done" /\ MAX_BODY_TOKENS = 8
       /\ split_messages = <<LineAlice, LineBob, LineCarolReply>>)
    => result = << <<LineAlice>>, <<LineBob>>, <<LineCarolReply>> >>

----------------------------------------------------------------------------
(* Claims about load_messages, checked under SpecLoad *)

\* load_messages has returned a transcript
Delivered == load_pc = "returned" /\ load_result # <<>>

\* the transcript returned, and the message each of its lines was made from:
\* line i of Transcript is the line of TranscriptSource[i]
Transcript == load_result[1]
TranscriptSource == Kept(messages)

\* the thread an assembled message belongs to: the thread it replies to, or
\* the one it starts (a root, a placeholder, a plain message)
ThreadOf(m) == IF m.thread_ts # <<>> THEN m.thread_ts[1] ELSE m.ts

IsPlaceholder(m) == m.user = "System" /\ m.subtype = <<"system">>

\* position of the message with ts = t in what the reply fetch of thread T lists
FetchPosition(T, t) ==
    CHOOSE p \in 1..Len(ThreadList(T)) : ThreadList(T)[p].ts = t

\* C6: in the transcript returned, the replies of one thread stand in the
\* order in which the reply fetch listed them (oldest first).
C6_RepliesInFetchOrder ==
    Delivered =>
       \A i, j \in 1..Len(TranscriptSource) :
          LET a == TranscriptSource[i]
              b == TranscriptSource[j]
          IN  (i < j /\ IsReply(a) /\ IsReply(b) /\ ThreadOf(a) = ThreadOf(b))
                 => FetchPosition(ThreadOf(a), a.ts) <= FetchPosition(ThreadOf(b), b.ts)

\* C7: in the transcript returned, the parent entry of a thread (the root or
\* the placeholder) stands before every reply line of that thread.
C7_ParentBeforeReplies ==
    Delivered =>
       \A i, j \in 1..Len(TranscriptSource) :
          LET parent == TranscriptSource[i]
              reply == TranscriptSource[j]
          IN  (IsReply(reply) /\ ~IsReply(parent) /\ parent.ts = ThreadOf(reply))
                 => i < j

\* the filtered top-level messages
TopLevel == SelectSeq(messages_info, NotExcluded)

\* the orphan candidates: top-level replies that reference thread T
RepliesTo(T) ==
    {i \in 1..Len(TopLevel) : IsReply(TopLevel[i]) /\ ThreadOf(TopLevel[i]) = T}

RootAbsent(T) == \A i \in 1..Len(TopLevel) : TopLevel[i].ts # T

PlaceholdersOf(T) ==
    {i \in 1..Len(messages) : IsPlaceholder(messages[i]) /\ messages[i].ts = T}

ThreadIds ==
    {messages[i].ts : i \in 1..Len(messages)}
       \cup {ThreadOf(TopLevel[i]) : i \in 1..Len(TopLevel)}

\* C8: once the history is classified, the assembled messages hold exactly
\* one placeholder for every thread_ts that a filtered top-level reply
\* references and whose root is absent from the filtered top-level messages,
\* however many replies reference it, and none for any other thread.
C8_OnePlaceholderPerMissingRoot ==
    load_pc \in {"replies", "reply_page", "returned"} =>
       \A T \in ThreadIds :
          Cardinality(PlaceholdersOf(T)) =
             IF RepliesTo(T) # {} /\ RootAbsent(T) THEN 1 ELSE 0

\* C8 witness: a transcript was returned for a history in which two orphan
\* replies reference the same missing root, with its one placeholder.
C8_Witness ==
    /\ Delivered
    /\ \E T \in ThreadIds :
          /\ Cardinality(RepliesTo(T)) >= 2
          /\ RootAbsent(T)
          /\ Cardinality(PlaceholdersOf(T)) = 1

\* C9: the transcript line of a placeholder is exactly
\* "System: Earlier message not retrieved".
C9_PlaceholderLine ==
    Delivered =>
       \A i \in 1..Len(TranscriptSource) :
          IsPlaceholder(TranscriptSource[i]) =>
             Transcript[i] = <<"System", ": ", "Earlier message not retrieved">>

\* C10: in the transcript returned, the lines of one thread (its parent entry
\* and its replies) form one contiguous block: no line of another thread
\* stands between two lines of the same thread.
C10_ThreadsContiguous ==
    Delivered =>
       \A i, j, k \in 1..Len(TranscriptSource) :
          (i < k /\ k < j
             /\ ThreadOf(TranscriptSource[i]) = ThreadOf(TranscriptSource[j]))
          => ThreadOf(TranscriptSource[k]) = ThreadOf(TranscriptSource[i])

\* the history fetch is over: messages_info holds every retrieved message
HistoryFetched == load_pc \in {"classify", "replies", "reply_page", "returned"}

\* no retrieved message carries a thread_ts
NoThreadTs == \A i \in 1..Len(messages_info) : messages_info[i].thread_ts = <<>>

\* C11: when no retrieved message carries a thread_ts, no reply fetch is
\* issued and load_messages returns the filtered top-level messages (those
\* of blank text left out), each formatted, in the reverse of the order the
\* history fetch returned them, no line carrying the reply prefix (None when
\* nothing is left).
C11_NoThreadsReversedTopLevel ==
    (HistoryFetched /\ NoThreadTs) =>
       /\ load_pc # "reply_page"
       /\ load_pc = "returned" =>
             LET expected == SelectSeq(Reverse(TopLevel),
                                       LAMBDA m : ~IsBlank(m.text))
             IN  IF expected = <<>> THEN load_result = <<>>
                 ELSE /\ load_result =
                           <<[i \in 1..Len(expected) |-> FormatMessage(expected[i])]>>
                      /\ \A i \in 1..Len(Transcript) :
                            ~StartsWithReplyPrefix(Transcript[i])

\* C11 witness: a transcript of two lines was returned for a history of
\* three messages without any thread_ts: the lines of the oldest and of the
\* newest, in that order, the filter having dropped the one in between.
C11_Witness ==
    /\ Delivered
    /\ NoThreadTs
    /\ Len(messages_info) = 3
    /\ ~NotExcluded(messages_info[2])
    /\ Transcript = <<FormatMessage(messages_info[3]),
                      FormatMessage(messages_info[1])>>

----------------------------------------------------------------------------
(* Claims about retry, checked under SpecRetry *)

RECURSIVE Doubled(_, _)
Doubled(time, n) == IF n = 0 THEN time ELSE 2 * Doubled(time, n - 1)

C15_OtherErrorPropagates ==
    (func_outcome # <<>> /\ func_outcome[1].kind = "raise"
       /\ func_outcome[1].class # error_type)
    => /\ retry_pc = "raised"
       /\ retry_error = func_outcome
       /\ backed_off = 0
       /\ calls = retry_i + 1

\* C15 witness: the first invocation raised an error of another class and
\* the caller got it.
C15_Witness ==
    /\ retry_pc = "raised"
    /\ retry_error[1].class # error_type
    /\ calls = 1
    /\ max_retries > 1

----------------------------------------------------------------------------
(* Claims about replace_user_id_with_name, checked under SpecReplace *)

\* the name the claim gives a referenced user: the display name get_user_name
\* resolves for a known ID, the bare ID for an unknown one
ResolvedName(user_id) ==
    IF get_user_name(user_id) # <<>> THEN get_user_name(user_id)[1] ELSE user_id

\* C19: in the text returned, every <@ID> token is replaced by the display
\* name get_user_name resolves for ID when ID is a known user and by the bare
\* ID otherwise, and everything outside the tokens is as in the argument.
C19_RefsBecomeDisplayNames ==
    replace_pc = "returned" =>
       /\ Len(replace_output[1]) = Len(replace_input)
       /\ \A i \in 1..Len(replace_input) :
             replace_output[1][i] =
                IF replace_input[i] \in UserRefs
                THEN ResolvedName(UserRefId(replace_input[i]))
                ELSE replace_input[i]

----------------------------------------------------------------------------
(* Claims about runner and the remote calls of load_messages, checked      *)
(* under SpecRun                                                           *)

\* load_messages returned None to runner
ReturnedNone == run_pc = "load" /\ load_pc = "returned" /\ load_result = <<>>

\* C12: load_messages never returns an empty list, and on the step runner
\* takes after load_messages returned None it moves to the next channel
\* without calling the chunker or summarize and without any post or entry of
\* channel_summaries for the channel.
C12_NoneNotEmptyAndSkipped ==
    [][/\ load_result' # << <<>> >>
       /\ ReturnedNone =>
             /\ channel_i' = channel_i + 1
             /\ split_pc' = "idle"
             /\ run_pc' \in {"load", "finish"}
             /\ summary' = <<>>
             /\ posted' = posted
             /\ channel_summaries' = channel_summaries
             /\ output_posts' = output_posts]_vars

\* C12 witness: load_messages returned None because every assembled message
\* had a blank text, and runner is about to test `messages is None`.
C12_Witness ==
    /\ ReturnedNone
    /\ messages # <<>>
    /\ messages_texts = <<>>
    /\ printed = {}

\* C13: one load_messages call makes at most one join operation.
C13_AtMostOneJoin == joins <= 1

\* the lines printed for a page that came back as None
NonePageLines == {<<"Error: Result is None">>,
                  <<"Error: Thread replies result is None">>}

\* C16: when a page of the history fetch or of a reply fetch came back as
\* None, load_messages returns None.
C16_NonePageAborts ==
    (load_pc = "returned" /\ printed \cap NonePageLines # {})
    => load_result = <<>>

\* the lines printed for a fetch that the wrapper gave up on
GaveUpLines ==
    {<<"Error: ", outcome.error>> : outcome \in {o \in Outcomes : Catches(o)}}
    \cup {<<"Error: Fetching thread replies: ", outcome.error>> :
             outcome \in {o \in Outcomes : Catches(o)}}

\* C17: when a history fetch or a reply fetch still failed with the
\* designated error class at the wrapper's last attempt, load_messages
\* returns None, not a transcript.
C17_ExhaustedFetchIsFatal ==
    (load_pc = "returned" /\ printed \cap GaveUpLines # {})
    => load_result = <<>>

\* C18: the process does not end on a failed join (a response that is not
\* ok, or an error after the wrapper's last attempt) while channels are left
\* in the channel list.
C18_JoinFailureKeepsLaterChannels ==
    (\/ run_pc = "exited"
     \/ run_pc = "raised" /\ retry_error[1].class = error_type)
    => channel_i = Len(Channels)

\* C20, as stated: every remote invocation, a re-invocation by the wrapper
\* included, comes after its own rate-limit sleep of 60/20 seconds.
C20_OwnRateLimitSleep ==
    retry_pc = "invoke" => waited = 60 \div 20

\* C20, amended: the first invocation of every call comes after its own
\* rate-limit sleep of 60/20 seconds, a re-invocation by the wrapper after
\* the wrapper's backoff sleep alone (10 seconds, doubling), so that at least
\* 60/20 seconds of sleep precede every remote invocation.
C20_SleepBeforeEveryInvocation ==
    retry_pc = "invoke" =>
       /\ retry_i = 0 => (waited = 60 \div 20 /\ backed_off = 0)
       /\ retry_i > 0 =>
             /\ waited = 0
             /\ backed_off = Doubled(LOAD_INITIAL_SLEEP_TIME, retry_i - 1)
       /\ waited + backed_off >= 60 \div 20

\* C20 witness: the join is about to be re-invoked for the second time,
\* after the join that followed a not_in_channel failure failed twice.
C20_Witness ==
    /\ retry_pc = "invoke"
    /\ load_pc = "join"
    /\ retry_i = 2
    /\ backed_off = 2 * LOAD_INITIAL_SLEEP_TIME
    /\ waited = 0

----------------------------------------------------------------------------
(* Further claims about load_messages, checked under SpecLoad *)

\* the classified list of the retrieved history (`messages` before line 280)
Classified == FilteredMessages(messages_info)

\* the message is among the assembled messages
Assembled(m) == \E k \in 1..Len(all_target_messages) : all_target_messages[k] = m

\* C22: once the reply loop is over, every message the reply fetch of a
\* fetched thread lists after the first element of its first page is among
\* the assembled messages.
C22_NoReplyDropped ==
    (load_pc = "returned" /\ Classified # <<>>) =>
       \A i \in 1..Len(Classified) :
          GetFetchReplies(Classified[i]) =>
             \A p \in 2..Len(ThreadList(Classified[i].ts)) :
                Assembled(ThreadList(Classified[i].ts)[p])

\* C23: a reply fetch is issued only with the ts of a thread root or of a
\* synthesized placeholder.
C23_FetchOnlyForRootsAndPlaceholders ==
    load_pc = "reply_page" =>
       \/ messages[msg_i].thread_ts = <<messages[msg_i].ts>>
       \/ IsPlaceholder(messages[msg_i])

\* C24: no line of the transcript returned derives from a message that
\* carries a bot_id or whose subtype is in the excluded set.
C24_NoExcludedLine ==
    Delivered =>
       \A i \in 1..Len(TranscriptSource) : NotExcluded(TranscriptSource[i])

\* C27: no two lines of the transcript returned derive from messages of the
\* same ts.
C27_NoMessageTwice ==
    Delivered =>
       \A i, j \in 1..Len(TranscriptSource) :
          i # j => TranscriptSource[i].ts # TranscriptSource[j].ts

\* the transcript holds the parent entry of thread T: its root or placeholder
HasParentEntry(T) ==
    \E i \in 1..Len(TranscriptSource) :
       ~IsReply(TranscriptSource[i]) /\ TranscriptSource[i].ts = T

\* C28: every reply line of the transcript returned has the parent entry of
\* its thread in the same transcript.
C28_ReplyHasParentEntry ==
    Delivered =>
       \A i \in 1..Len(TranscriptSource) :
          IsReply(TranscriptSource[i]) => HasParentEntry(ThreadOf(TranscriptSource[i]))

----------------------------------------------------------------------------
(* Further claim about split_messages_by_token_count, checked under        *)
(* SpecSplit                                                               *)

\* C29: no segment of the result is empty.
C29_NoEmptySegment ==
    split_pc = "done" => \A s \in 1..Len(result) : result[s] # <<>>


----------------------------------------------------------------------------
(* src/summarizer.py: summarize (lines 34-135), called on its own *)

MaxSummarizeRetries == 4   \* largest max_retries given to summarize
MaxInitialWait == 3        \* largest initial_wait_time given to summarize
MaxSummarizeLen == 2       \* longest text given to summarize, in tokens

\* the tokens of the texts tried
SummarizeTokens == {"Alice: hi", "Bob: hello"}

\* response['choices'][0]['message']['content'] of the replies tried
ReplyContents == {<<>>, <<"- Alice greeted Bob.">>}

\* the classes ChatCompletion.create raises in the model; the last one has
\* no except clause in summarize
ServiceErrors == {"ServiceUnavailableError", "Timeout", "APIConnectionError",
                  "RateLimitError", "InvalidRequestError"}

\* lines 83, 94, 101, 112: the classes summarize catches
Caught(class) ==
    class \in {"ServiceUnavailableError", "Timeout", "APIConnectionError",
               "RateLimitError"}

\* lines 87, 105, 116: `if i < max_retries - 1`
HasAttemptLeft(i) == i < summarize_max_retries - 1

\* the except clauses, mutated: Timeout is treated as the other three
RetriedAlsoTimeout(class, i) == Caught(class) /\ HasAttemptLeft(i)

\* lines 83-90, 101-108, 112-119 against 94-100: the failure is followed by
\* a sleep and another attempt
Retried(class, i) ==
    class \in {"ServiceUnavailableError", "APIConnectionError", "RateLimitError"}
       /\ HasAttemptLeft(i)

\* lines 89, 107, 118, mutated: the wait is not doubled
SameWaitTime(w) == w

\* lines 89, 107, 118: wait_time *= 2
NextWaitTime(w) == w * 2

\* lines 92, 98-99, 110, 121: the message of the class
ErrorMessage(class, text) ==
    CASE class = "ServiceUnavailableError" ->
            <<"The service is currently unavailable. Please try again later.">>
      [] class = "Timeout" ->
            <<"Timeout error occurred. The estimated token count is ",
              ToString(estimate_openai_chat_token_count(text)),
              ". Please try again with shorter text.">>
      [] class = "APIConnectionError" ->
            <<"A connection error occurred. Please check your internet connection and try again.">>
      [] class = "RateLimitError" ->
            <<"Exceeded rate limit. Please try again later.">>

SummarizeFrame == <<split_vars, load_vars, retry_vars, replace_vars, run_vars>>

InitSummarize ==
    /\ \E n \in 0..MaxSummarizeLen : summarize_text \in [1..n -> SummarizeTokens]
    /\ summarize_max_retries \in 0..MaxSummarizeRetries
    /\ initial_wait_time \in 0..MaxInitialWait
    /\ summarize_i = 0
    /\ wait_time = 0
    /\ response = <<>>
    /\ error_response = <<>>
    /\ service_calls = 0
    /\ service_failure = <<>>
    /\ slept = 0
    /\ interval_slept = FALSE
    /\ summarize_result = <<>>
    /\ summarize_pc = "idle"
    /\ SplitIdle
    /\ LoadIdle
    /\ RetryIdle
    /\ ReplaceIdle
    /\ RunIdle

\* lines 71-74: the locals are set and the loop is entered; lines 127-135
\* when range(max_retries) is empty: error_response is "" and response is
\* None, so response['choices'] raises TypeError
CallSummarize ==
    /\ summarize_pc = "idle"
    /\ wait_time' = initial_wait_time
    /\ summarize_pc' = IF summarize_max_retries = 0 THEN "raised" ELSE "call"
    /\ UNCHANGED <<summarize_text, summarize_max_retries, initial_wait_time,
                   summarize_i, response, error_response, service_calls,
                   service_failure, slept, interval_slept, summarize_result>>
    /\ UNCHANGED SummarizeFrame

\* lines 76-82 and 127-135: the service replies, summarize sleeps
\* REQUEST_INTERVAL, leaves the loop and returns the content
ServiceReplies ==
    /\ summarize_pc = "call"
    /\ \E content \in ReplyContents :
          /\ response' = <<content>>
          /\ summarize_result' = <<content>>
    /\ service_calls' = service_calls + 1
    /\ service_failure' = <<>>
    /\ slept' = 0
    /\ interval_slept' = TRUE
    /\ summarize_pc' = "returned"
    /\ UNCHANGED <<summarize_text, summarize_max_retries, initial_wait_time,
                   summarize_i, wait_time, error_response>>
    /\ UNCHANGED SummarizeFrame

\* lines 87-90, 105-108, 116-119: the call fails, summarize sleeps wait_time,
\* doubles it and goes to the next iteration
ServiceFailsRetried ==
    /\ summarize_pc = "call"
    /\ \E class \in ServiceErrors :
          /\ Retried(class, summarize_i)
          /\ service_failure' = <<class>>
    /\ service_calls' = service_calls + 1
    /\ slept' = wait_time
    /\ wait_time' = NextWaitTime(wait_time)
    /\ summarize_i' = summarize_i + 1
    /\ UNCHANGED <<summarize_text, summarize_max_retries, initial_wait_time,
                   response, error_response, interval_slept, summarize_result,
                   summarize_pc>>
    /\ UNCHANGED SummarizeFrame

\* lines 91-93, 98-100, 109-111, 120-122 and 127-130: the call fails, the
\* message of the class is set, the loop is left and the message returned
ServiceFailsFinal ==
    /\ summarize_pc = "call"
    /\ \E class \in ServiceErrors :
          /\ Caught(class)
          /\ ~Retried(class, summarize_i)
          /\ service_failure' = <<class>>
          /\ error_response' = ErrorMessage(class, summarize_text)
          /\ summarize_result' = <<ErrorMessage(class, summarize_text)>>
    /\ service_calls' = service_calls + 1
    /\ slept' = 0
    /\ summarize_pc' = "returned"
    /\ UNCHANGED <<summarize_text, summarize_max_retries, initial_wait_time,
                   summarize_i, wait_time, response, interval_slept>>
    /\ UNCHANGED SummarizeFrame

\* lines 75-122: the call fails with a class no except clause names, and
\* the error leaves summarize
ServiceErrorPropagates ==
    /\ summarize_pc = "call"
    /\ \E class \in ServiceErrors :
          /\ ~Caught(class)
          /\ service_failure' = <<class>>
    /\ service_calls' = service_calls + 1
    /\ slept' = 0
    /\ summarize_pc' = "raised"
    /\ UNCHANGED <<summarize_text, summarize_max_retries, initial_wait_time,
                   summarize_i, wait_time, response, error_response,
                   interval_slept, summarize_result>>
    /\ UNCHANGED SummarizeFrame

NextSummarize ==
    \/ CallSummarize
    \/ ServiceReplies
    \/ ServiceFailsRetried
    \/ ServiceFailsFinal
    \/ ServiceErrorPropagates

SpecSummarize == InitSummarize /\ [][NextSummarize]_vars


----------------------------------------------------------------------------
(* Claims about summarize, checked under SpecSummarize *)

\* the last service call of this summarize call failed with the class
LastFailure(class) == service_failure = <<class>>

\* the text returned contains the piece
ResultContains(piece) ==
    /\ summarize_result # <<>>
    /\ \E k \in 1..Len(summarize_result[1]) : summarize_result[1][k] = piece

\* C25: when the summarization call fails with a timeout, summarize makes no
\* further attempt: the failed call is the only one made since the last
\* retried failure, no backoff sleep follows it, and summarize returns
\* (does not raise) a message containing the estimated token count of the
\* input text.
C25_TimeoutNotRetried ==
    LastFailure("Timeout") =>
       /\ summarize_pc = "returned"
       /\ service_calls = summarize_i + 1
       /\ slept = 0
       /\ ResultContains("Timeout error occurred. The estimated token count is ")
       /\ ResultContains(ToString(estimate_openai_chat_token_count(summarize_text)))

C25_Witness ==
    /\ LastFailure("Timeout")
    /\ summarize_pc = "returned"
    /\ summarize_i >= 1
    /\ summarize_i + 1 < summarize_max_retries
    /\ summarize_text # <<>>

\* the classes whose failures summarize retries
RetriedClasses == {"ServiceUnavailableError", "APIConnectionError", "RateLimitError"}

\* the human-readable message of each retried class
ClassMessage ==
    [class \in RetriedClasses |->
        CASE class = "ServiceUnavailableError" ->
                "The service is currently unavailable. Please try again later."
          [] class = "APIConnectionError" ->
                "A connection error occurred. Please check your internet connection and try again."
          [] class = "RateLimitError" ->
                "Exceeded rate limit. Please try again later."]

\* C26: when every attempt of summarize fails with service-unavailable,
\* connection or rate-limit errors, summarize makes exactly max_retries
\* service calls, sleeps initial_wait_time after the first failure and twice
\* the previous wait after each later one (whatever the classes), sleeps
\* nothing after the last, and returns, without raising, the message of the
\* class of the last failure; a call never returns both a summary and an
\* error message.
C26_RetriesThenClassMessage ==
    /\ summarize_pc = "call" =>
          /\ service_calls = summarize_i
          /\ wait_time = initial_wait_time * 2 ^ summarize_i
          /\ summarize_i >= 1 =>
                /\ service_failure # <<>>
                /\ service_failure[1] \in RetriedClasses
                /\ slept = initial_wait_time * 2 ^ (summarize_i - 1)
    /\ (/\ summarize_pc \in {"returned", "raised"}
        /\ service_failure # <<>>
        /\ service_failure[1] \in RetriedClasses) =>
          /\ summarize_pc = "returned"
          /\ service_calls = summarize_max_retries
          /\ slept = 0
          /\ response = <<>>
          /\ summarize_result = <<<<ClassMessage[service_failure[1]]>>>>
    /\ summarize_pc = "returned" =>
          /\ ~(response # <<>> /\ error_response # <<>>)
          /\ summarize_result =
                IF error_response # <<>> THEN <<error_response>> ELSE response

C26_Witness ==
    /\ summarize_pc = "returned"
    /\ LastFailure("RateLimitError")
    /\ summarize_max_retries = 3
    /\ initial_wait_time = 2
    /\ service_calls = 3
    /\ wait_time = 8


----------------------------------------------------------------------------
(* The history loop of load_messages (slack.py lines 167-199) as runner    *)
(* runs it for its first channel, over listings of several pages           *)

MaxHistoryMsgs == 3  \* most messages the history lists for the channel

\* the messages that may carry ts = k here: a plain message, a bot's
\* message, a thread root
HistoryMessagesAt(k) ==
    {RawMessage(k, <<>>, FALSE, FALSE),
     RawMessage(k, <<>>, FALSE, TRUE),
     RawMessage(k, <<k>>, FALSE, FALSE)}

\* the remote side: somebody posts the next message of the channel
HistoryPost ==
    /\ run_pc = "load"
    /\ load_pc = "idle"
    /\ Len(world) < MaxHistoryMsgs
    /\ \E m \in HistoryMessagesAt(Len(world) + 1) : world' = Append(world, m)
    /\ UNCHANGED <<messages_info, next_cursor, messages, msg_i,
                   all_target_messages, messages_texts, load_result, load_pc>>
    /\ UNCHANGED LoadFrame

NextHistory ==
    \/ HistoryPost
    \/ RunCallLoadMessages
    \/ WaitApiCall
    \/ RemoteFails
    \/ Propagates
    \/ HistoryReturnsPage
    \/ HistoryReturnsNone
    \/ HistoryNotInChannel
    \/ HistoryError
    \/ JoinOk
    \/ JoinNotOk
    \/ Classify

SpecHistory == InitRun /\ [][NextHistory]_vars

----------------------------------------------------------------------------
(* Claim about the history pagination, checked under SpecHistory *)

\* the first n messages of what conversations.history lists
HistoryPrefix(n) == SubSeq(HistoryList, 1, n)

\* C21: while load_messages pages through the history, before and after a
\* join, what it has accumulated is the listing's pages so far, each once
\* and in page order, and the cursor of the next fetch is None before the
\* first page and afterwards the cursor the last page returned; once the
\* loop is left the accumulated list is the whole listing.
C21_PagesOnceInOrder ==
    /\ (run_pc = "load" /\ load_pc \in {"history", "join"}) =>
          /\ Len(messages_info) <= Len(HistoryList)
          /\ messages_info = HistoryPrefix(Len(messages_info))
          /\ next_cursor = IF messages_info = <<>> THEN <<>>
                           ELSE <<Page(HistoryList, <<Len(messages_info) - PageSize>>).next_cursor>>
    /\ (run_pc = "load" /\ load_pc \in {"classify", "replies", "reply_page"}) =>
          messages_info = HistoryList

\* a join is under way after a page was accumulated and before the last one
C21_Witness ==
    /\ run_pc = "load"
    /\ load_pc = "join"
    /\ messages_info # <<>>
    /\ next_cursor # <<>>
    /\ Len(messages_info) < Len(HistoryList)

====
